---- MODULE Spec2Model ----
(***************************************************************************)
(* Verification model of torchvision's prototype features (tensor          *)
(* subclasses that carry metadata), the flip kernels of BoundingBox, the   *)
(* input check of RandomMixup / RandomCutmix, and the clip indexing of     *)
(* torchvision.datasets.video_utils.                                       *)
(***************************************************************************)
EXTENDS Integers, Sequences, FiniteSets, TLC

\* ---------------------------------------------------------------- bounds
MaxSide == 3          \* largest image height / width of a bounding-box scenario
MaxLen == 5           \* longest 1-D tensor passed to unfold
MaxWindow == 3        \* largest window size, step and dilation
MaxVideos == 3        \* most videos of a VideoClips object
MaxFrames == 4        \* most frames of a video
MaxSamplerVideos == 2 \* most videos under a RandomMaxVideoClipSampler
MaxSamplerFrames == 2 \* most frames of a video under the sampler
MaxPerVideo == 2      \* largest max_clips_per_video
MaxRegistered == 2    \* most kernel registration calls
MaxDecorated == 2     \* most decorator applications
MaxLibs == 2          \* most relocatable libraries in an lddtree
MaxNeeded == 2        \* most 'needed' entries of one ELF file
MaxCells == 16        \* largest image side, in units of four pixels
MaxIters == 2         \* largest num_iters
MaxBatch == 2         \* largest batch size
MaxKeys == 3          \* most keys of a sample dictionary
MaxBoxes == 2         \* most boxes of a sample
MaxCopyBatch == 3     \* most samples of a SimpleCopyPaste batch
MaxMasks == 2         \* most masks of a target
MaxPad == 2           \* largest padding of one side

\* ------------------------------------------------------------- vocabulary
None == "None"
NoMeta == "<no attribute>"              \* a plain torch.Tensor has no metadata attribute
DTypes == {"float32", "float64"}
Devices == {"cpu", "cuda"}
MetaObjs == <<"m1", "m2">>              \* identities of the metadata objects (categories lists,
                                        \* formats, color spaces) given to the operands
OtherMeta == "m3"                       \* a metadata object passed to new_like explicitly
TensorCls == "Tensor"
FeatureClasses == {"Label", "OneHotLabel", "BoundingBox", "Image"}

VARIABLES heap, last, bb, mix, uf, vc, smp, reg, rel, raft, san, cp, pd

vars == <<heap, last, bb, mix, uf, vc, smp, reg, rel, raft, san, cp, pd>>

\* the variables of the subsystems added after the features, flips, mixing,
\* unfold and VideoClips; a specification that does not use them keeps them idle
later == <<smp, reg, rel, raft, san, cp, pd>>

early == <<heap, last, bb, mix, uf, vc>>

EarlyIdle == heap = << >> /\ last = 0 /\ bb = 0 /\ mix = 0 /\ uf = 0 /\ vc = 0

LaterIdle == smp = 0 /\ reg = 0 /\ rel = 0 /\ raft = 0 /\ san = 0 /\ cp = 0 /\ pd = 0

\* issubclass(c, t) over torch.Tensor, _Feature and its subclasses; any other
\* class (str, int, PIL.Image.Image) is a subclass of itself only
AllFeatureClasses == FeatureClasses \cup {"Mask", "Video"}

issubclass(c, t) ==
    \/ c = t
    \/ t = TensorCls /\ c \in AllFeatureClasses \cup {"_Feature"}
    \/ t = "_Feature" /\ c \in AllFeatureClasses
    \/ c = "OneHotLabel" /\ t = "Label"

isinstance(h, o, t) == issubclass(h[o].type, t)

\* features.is_simple_tensor, on the class of the object
is_simple_tensor(c) == issubclass(c, TensorCls) /\ ~issubclass(c, "_Feature")

\* ------------------------------------------------------------ host tensors
Alloc(h, rec) == [h |-> Append(h, rec), r |-> Len(h) + 1]

\* a storage no existing tensor uses
RECURSIVE MaxStorage(_)
MaxStorage(h) ==
    IF h = << >> THEN 0
    ELSE LET m == MaxStorage(Tail(h)) IN IF Head(h).storage > m THEN Head(h).storage ELSE m

NewStorage(h) == MaxStorage(h) + 1

\* torch.as_tensor(data, dtype=, device=): data itself when nothing has to be
\* converted, otherwise a converted copy in fresh storage.  data = 0 stands
\* for a Python list, which always becomes a fresh tensor.
as_tensor(h, data, dtype, device) ==
    IF data = 0
    THEN Alloc(h, [type |-> TensorCls, storage |-> NewStorage(h),
                   dtype |-> IF dtype = None THEN "float32" ELSE dtype,
                   device |-> IF device = None THEN "cpu" ELSE device,
                   requires_grad |-> FALSE, meta |-> NoMeta])
    ELSE LET dt == IF dtype = None THEN h[data].dtype ELSE dtype
             dv == IF device = None THEN h[data].device ELSE device
         IN IF dt = h[data].dtype /\ dv = h[data].device
            THEN [h |-> h, r |-> data]
            ELSE Alloc(h, [type |-> TensorCls, storage |-> NewStorage(h), dtype |-> dt, device |-> dv,
                           requires_grad |-> h[data].requires_grad, meta |-> NoMeta])

\* Tensor.as_subclass(cls): a new Python object of class cls over the same storage
as_subclass(h, o, cls) == Alloc(h, [h[o] EXCEPT !.type = cls, !.meta = NoMeta])

\* Tensor.requires_grad_(flag): in place, returns the tensor itself
requires_grad_(h, o, flag) == [h |-> [h EXCEPT ![o].requires_grad = flag], r |-> o]

\* ------------------------------------------------------- feature classes
Feature_new_copy(h, cls, data, dtype, device, requires_grad) ==
    LET t == as_tensor(h, 0, IF dtype = None /\ data # 0 THEN h[data].dtype ELSE dtype,
                       IF device = None /\ data # 0 THEN h[data].device ELSE device)
        s == as_subclass(t.h, t.r, cls)
    IN requires_grad_(s.h, s.r, requires_grad)

\* _Feature.__new__: as_tensor(data).as_subclass(cls).requires_grad_(requires_grad)
Feature_new(h, cls, data, dtype, device, requires_grad) ==
    LET t == as_tensor(h, data, dtype, device)
        s == as_subclass(t.h, t.r, cls)
    IN requires_grad_(s.h, s.r, requires_grad)

\* Label.__new__ / OneHotLabel.__new__ / BoundingBox.__new__ / Image.__new__:
\* build the tensor, then attach the metadata object that was passed in
SetMeta(n, meta) == [h |-> [n.h EXCEPT ![n.r].meta = meta], r |-> n.r]

Label_new(h, cls, data, categories, dtype, device, requires_grad) ==
    SetMeta(Feature_new(h, cls, data, dtype, device, requires_grad), categories)

BoundingBox_new(h, cls, data, fmt_size, dtype, device, requires_grad) ==
    SetMeta(Feature_new(h, cls, data, dtype, device, requires_grad), fmt_size)

Image_new(h, cls, data, color_space, dtype, device, requires_grad) ==
    LET t == as_tensor(h, data, dtype, device)
    IN SetMeta(Feature_new(t.h, cls, t.r, None, None, requires_grad), color_space)

cls_new(h, cls, data, meta, dtype, device, requires_grad) ==
    CASE cls \in {"Label", "OneHotLabel"} -> Label_new(h, cls, data, meta, dtype, device, requires_grad)
      [] cls = "BoundingBox" -> BoundingBox_new(h, cls, data, meta, dtype, device, requires_grad)
      [] cls = "Image" -> Image_new(h, cls, data, meta, dtype, device, requires_grad)

\* _Feature.new_like: the reference's dtype, device and requires_grad are the
\* defaults of the new feature (the requires_grad keyword is "True", "False" or None)
Feature_new_like(h, cls, other, data, meta, dtype, device, requires_grad) ==
    cls_new(h, cls, data, meta,
            IF dtype # None THEN dtype ELSE h[other].dtype,
            IF device # None THEN device ELSE h[other].device,
            IF requires_grad # None THEN requires_grad = "True" ELSE h[other].requires_grad)

\* Label.new_like / OneHotLabel.new_like: categories default to other.categories
Label_new_like(h, cls, other, data, categories, dtype, device, requires_grad) ==
    Feature_new_like(h, cls, other, data,
                     IF categories # None THEN categories ELSE h[other].meta,
                     dtype, device, requires_grad)

\* BoundingBox.new_like: format and image_size default to the reference's
BoundingBox_new_like(h, cls, other, data, fmt_size, dtype, device, requires_grad) ==
    Feature_new_like(h, cls, other, data,
                     IF fmt_size # None THEN fmt_size ELSE h[other].meta,
                     dtype, device, requires_grad)

\* Image.new_like: color_space defaults to the reference's
Image_new_like(h, cls, other, data, color_space, dtype, device, requires_grad) ==
    Feature_new_like(h, cls, other, data,
                     IF color_space # None THEN color_space ELSE h[other].meta,
                     dtype, device, requires_grad)

new_like(h, cls, other, data, meta, dtype, device, requires_grad) ==
    CASE cls \in {"Label", "OneHotLabel"} -> Label_new_like(h, cls, other, data, meta, dtype, device, requires_grad)
      [] cls = "BoundingBox" -> BoundingBox_new_like(h, cls, other, data, meta, dtype, device, requires_grad)
      [] cls = "Image" -> Image_new_like(h, cls, other, data, meta, dtype, device, requires_grad)

\* ------------------------------------------------ operators of the host
\* func(*args) as it runs inside DisableTorchFunction: new tensors come back
\* as plain torch.Tensor, an in-place func (and a no-op .to()) hands back
\* args[0] itself and so retains its type, some funcs return no tensor.
\* a1 = 0 means that the second argument is not a tensor.
Out(h, kind, r) == [h |-> h, kind |-> kind, r |-> r]

Fresh(h, a0, dtype, device) ==
    Alloc(h, [type |-> TensorCls, storage |-> NewStorage(h), dtype |-> dtype, device |-> device,
              requires_grad |-> h[a0].requires_grad, meta |-> NoMeta])

func_call(h, func, a0, a1, dtype, device, flag) ==
    CASE func = "clone" ->
           LET n == Fresh(h, a0, h[a0].dtype, h[a0].device) IN Out(n.h, "tensor", n.r)
      [] func = "to" ->
           LET dt == IF a1 # 0 THEN h[a1].dtype ELSE dtype
               dv == IF a1 # 0 THEN h[a1].device ELSE device
           IN IF dt = h[a0].dtype /\ dv = h[a0].device
              THEN Out(h, "tensor", a0)
              ELSE LET n == Fresh(h, a0, dt, dv) IN Out(n.h, "tensor", n.r)
      [] func = "requires_grad_" ->
           LET n == requires_grad_(h, a0, flag) IN Out(n.h, "tensor", n.r)
      [] func = "mul" ->
           LET n == Fresh(h, a0, h[a0].dtype, h[a0].device) IN Out(n.h, "tensor", n.r)
      [] func = "add_" -> Out(h, "tensor", a0)
      [] func = "numpy" -> Out(h, "ndarray", 0)
      [] func = "tolist" -> Out(h, "list", 0)
      [] func = "max_dim" -> Out(h, "tuple", 0)

\* _Feature._NO_WRAPPING_EXCEPTIONS
NO_WRAPPING_EXCEPTIONS == {"clone", "to", "requires_grad_"}

wrapper(h, func, cls, input, output) ==
    CASE func = "clone" ->
           LET n == new_like(h, cls, input, output, None, None, None, None) IN Out(n.h, "tensor", n.r)
      [] func = "to" ->
           LET n == new_like(h, cls, input, output, None, h[output].dtype, h[output].device, None)
           IN Out(n.h, "tensor", n.r)
      [] func = "requires_grad_" -> Out(h, "tensor", output)

torch_function_wrap_all(h, cls, func, types, a0, a1, dtype, device, flag) ==
    IF ~ \A t \in types : issubclass(cls, t)
    THEN Out(h, "NotImplemented", 0)
    ELSE LET output == func_call(h, func, a0, a1, dtype, device, flag)
         IN IF output.kind = "tensor" /\ isinstance(output.h, a0, cls)
            THEN IF func \in NO_WRAPPING_EXCEPTIONS
                 THEN wrapper(output.h, func, cls, a0, output.r)
                 ELSE LET n == new_like(output.h, cls, a0, output.r, None, None, None, None)
                      IN Out(n.h, "tensor", n.r)
            ELSE output

torch_function_no_guard(h, cls, func, types, a0, a1, dtype, device, flag) ==
    IF ~ \A t \in types : issubclass(cls, t)
    THEN Out(h, "NotImplemented", 0)
    ELSE LET output == func_call(h, func, a0, a1, dtype, device, flag)
         IN IF func \in NO_WRAPPING_EXCEPTIONS
            THEN wrapper(output.h, func, cls, a0, output.r)
            ELSE IF output.kind = "tensor" /\ isinstance(output.h, output.r, cls)
                 THEN LET n == as_subclass(output.h, output.r, TensorCls) IN Out(n.h, "tensor", n.r)
                 ELSE output

\* _Feature.__torch_function__(cls, func, types, args)
torch_function(h, cls, func, types, a0, a1, dtype, device, flag) ==
    IF ~ \A t \in types : issubclass(cls, t)
    THEN Out(h, "NotImplemented", 0)
    ELSE LET output == func_call(h, func, a0, a1, dtype, device, flag)
         IN IF func \in NO_WRAPPING_EXCEPTIONS /\ isinstance(output.h, a0, cls)
            THEN wrapper(output.h, func, cls, a0, output.r)
            ELSE IF output.kind = "tensor" /\ isinstance(output.h, output.r, cls)
                 THEN LET n == as_subclass(output.h, output.r, TensorCls) IN Out(n.h, "tensor", n.r)
                 ELSE output

\* The __torch_function__ protocol of the host: the types of the arguments
\* that are features are collected, the handler of each is tried (subclasses
\* before superclasses) and the first result other than NotImplemented is the
\* result of the call; TypeError when every handler declines.  Without a
\* feature among the arguments the func runs directly.
overloaded_types(h, a0, a1) ==
    {h[a].type : a \in {x \in ({a0, a1} \ {0}) : h[x].type # TensorCls}}

handled_by(types) == {c \in types : \A t \in types : issubclass(c, t)}

dispatch(h, func, a0, a1, dtype, device, flag) ==
    LET types == overloaded_types(h, a0, a1)
    IN IF types = {}
       THEN func_call(h, func, a0, a1, dtype, device, flag) @@ [cls |-> None]
       ELSE IF handled_by(types) = {}
            THEN Out(h, "TypeError", 0) @@ [cls |-> None]
            ELSE LET cls == CHOOSE c \in handled_by(types) : \A d \in handled_by(types) : issubclass(c, d)
                 IN torch_function(h, cls, func, types, a0, a1, dtype, device, flag) @@ [cls |-> cls]

\* ------------------------------------------------------- feature scenario
\* heap: the tensors the caller holds and passes as operands (index =
\*       identity of the object); the operations take args[0] and at most
\*       one more tensor, so the caller prepares at most two;
\* last: the operation performed last, its operands, what it returned and
\*       the objects that exist when it returns (field h, which extends heap
\*       by the objects the operation created).
Idle == "-"
NoCall ==
    [op |-> "init", func |-> Idle, cls |-> None, a0 |-> 0, a1 |-> 0, a0type |-> Idle, a1type |-> Idle,
     meta |-> None,
     kind |-> Idle, r |-> 0, dtype |-> None, device |-> None, h |-> << >>]

InitFeature ==
    /\ heap = << >>
    /\ last = NoCall
    /\ bb = 0 /\ mix = 0 /\ uf = 0 /\ vc = 0 /\ LaterIdle

\* the caller is preparing operands: nothing has been called on them yet
Ready == last.op \in {"init", "tensor", "construct"}

Preparing == Ready /\ Len(heap) < 2

\* the caller keeps the object r of h as a further operand
Hold(h, r) == Append(SubSeq(h, 1, Len(heap)), h[r])

\* torch.tensor(...): a plain tensor in fresh storage
NewTensor ==
    \E dtype \in DTypes, device \in Devices :
        LET n == as_tensor(heap, 0, dtype, device)
        IN /\ Preparing
           /\ heap' = Hold(n.h, n.r)
           /\ last' = [NoCall EXCEPT !.op = "tensor", !.kind = "tensor", !.r = n.r, !.h = n.h]
           /\ UNCHANGED <<bb, mix, uf, vc, later>>

\* features.Label(data, categories=...), features.Image(data, color_space=...), ...
\* from a Python list (data = 0) or from a tensor the caller holds
Construct ==
    /\ Preparing
    /\ \E cls \in FeatureClasses, data \in 0..Len(heap), meta \in {MetaObjs[Len(heap) + 1]},
       dtype \in DTypes \cup {None}, device \in Devices \cup {None}, requires_grad \in BOOLEAN :
        LET n == cls_new(heap, cls, data, meta, dtype, device, requires_grad)
        IN /\ heap' = Hold(n.h, n.r)
           /\ last' = [NoCall EXCEPT !.op = "construct", !.cls = cls, !.kind = "tensor", !.r = n.r,
                                     !.a0 = data, !.dtype = dtype, !.device = device, !.h = n.h]
           /\ UNCHANGED <<bb, mix, uf, vc, later>>

\* cls.new_like(other, data, ...) called directly with a reference feature
NewLike ==
    \E cls \in FeatureClasses, other \in 1..Len(heap), data \in 1..Len(heap), meta \in {OtherMeta, None},
       dtype \in DTypes \cup {None}, device \in Devices \cup {None} :
        LET n == new_like(heap, cls, other, data, meta, dtype, device, None)
        IN /\ Ready
           /\ isinstance(heap, other, cls)
           /\ heap' = heap
           /\ last' = [NoCall EXCEPT !.op = "new_like", !.cls = cls, !.kind = "tensor", !.r = n.r,
                                     !.a0 = other, !.a1 = data, !.meta = meta,
                                     !.dtype = dtype, !.device = device, !.h = n.h]
           /\ UNCHANGED <<bb, mix, uf, vc, later>>

\* a tensor operation func(a0, ...) routed by the protocol (last.cls is the
\* class whose __torch_function__ produced the result); what the operation
\* changes in place stays changed in the caller's operands
Invoke(func, a0, a1, dtype, device, flag) ==
    LET n == dispatch(heap, func, a0, a1, dtype, device, flag)
    IN /\ Ready
       /\ heap' = SubSeq(n.h, 1, Len(heap))
       /\ last' = [NoCall EXCEPT !.op = "call", !.func = func, !.cls = n.cls, !.a0 = a0, !.a1 = a1,
                                 !.a0type = heap[a0].type,
                                 !.a1type = IF a1 = 0 THEN Idle ELSE heap[a1].type,
                                 !.kind = n.kind, !.r = n.r, !.dtype = dtype, !.device = device, !.h = n.h]
       /\ UNCHANGED <<bb, mix, uf, vc, later>>

Call ==
    \E a0 \in 1..Len(heap) :
        \/ \E func \in {"clone", "numpy", "tolist", "max_dim"} : Invoke(func, a0, 0, None, None, FALSE)
        \/ \E func \in {"mul", "add_"}, a1 \in 0..Len(heap) : Invoke(func, a0, a1, None, None, FALSE)
        \/ \E flag \in BOOLEAN : Invoke("requires_grad_", a0, 0, None, None, flag)
        \/ \E dtype \in DTypes, device \in Devices : Invoke("to", a0, 0, dtype, device, FALSE)
        \/ \E a1 \in 1..Len(heap) : Invoke("to", a0, a1, heap[a1].dtype, heap[a1].device, FALSE)

\* the caller drops the operands and the result and starts over
Reset ==
    /\ ~Ready
    /\ heap' = << >>
    /\ last' = NoCall
    /\ UNCHANGED <<bb, mix, uf, vc, later>>

NextFeature == NewTensor \/ Construct \/ NewLike \/ Call \/ Reset

SpecFeature == InitFeature /\ [][NextFeature]_vars

\* ------------------------------------------------- claims about features
Called(f) == last.op = "call" /\ last.func = f
OnFeature == last.op = "call" /\ last.a0type \in FeatureClasses
Handled == last.op = "call" /\ last.cls # None /\ last.kind # "NotImplemented"
Returned == last.h[last.r]
IsNewObject == last.r > Len(heap)
NonTensorKind(f) == CASE f = "numpy" -> "ndarray" [] f = "tolist" -> "list" [] f = "max_dim" -> "tuple" [] OTHER -> "tensor"

\* C1: an operation other than clone, to and requires_grad_ that is invoked
\* with a feature as operand never returns a feature: a tensor result has type
\* exactly torch.Tensor and a non-tensor result is returned as produced.
C1_OtherOpNoWrapping ==
    (Handled /\ last.func \notin NO_WRAPPING_EXCEPTIONS /\ last.kind # "TypeError") =>
        /\ last.kind = NonTensorKind(last.func)
        /\ last.kind = "tensor" => Returned.type = TensorCls

\* C2: to and clone called on a feature return a new object of the feature's
\* class that carries the very same metadata object; to() gives the requested
\* dtype and device, clone() a storage of its own.
C2_ToCloneWrapping ==
    (OnFeature /\ last.func \in {"to", "clone"} /\ last.kind # "TypeError") =>
        /\ last.kind = "tensor"
        /\ IsNewObject
        /\ Returned.type = last.a0type
        /\ Returned.meta = heap[last.a0].meta
        /\ last.func = "to" => Returned.dtype = last.dtype /\ Returned.device = last.device
        /\ last.func = "clone" => Returned.storage # heap[last.a0].storage

\* C3 as stated: after any tensor operation applied to a BoundingBox, Image or
\* Label the result still carries the input's metadata.
C3_MetadataThroughAnyOp ==
    (OnFeature /\ last.a0type \in {"BoundingBox", "Image", "Label"} /\ last.kind = "tensor") =>
        Returned.meta = heap[last.a0].meta

\* C3 as amended: metadata is propagated only by clone, to and requires_grad_
\* handled by the class of the primary operand; a tensor created by any other
\* operation is a plain torch.Tensor without metadata.
C3_MetadataOnlyThroughExceptions ==
    /\ (OnFeature /\ last.func \in NO_WRAPPING_EXCEPTIONS /\ last.cls = last.a0type) =>
           /\ last.kind = "tensor"
           /\ Returned.type = last.a0type
           /\ Returned.meta = heap[last.a0].meta
    /\ (OnFeature /\ last.func \notin NO_WRAPPING_EXCEPTIONS /\ last.kind = "tensor" /\ IsNewObject) =>
           /\ Returned.type = TensorCls
           /\ Returned.meta = NoMeta

C3_Witness ==
    /\ Called("to") /\ last.a0type = "Image" /\ last.cls = "Image"
    /\ Returned.dtype # heap[last.a0].dtype
    /\ Returned.meta = heap[last.a0].meta /\ Returned.meta \in {MetaObjs[1], MetaObjs[2]}

\* C4: tensor.to(feature) with a plain tensor as primary operand is handled by
\* the feature class and returns a plain torch.Tensor of the feature's dtype.
C4_ToFeatureReference ==
    (Called("to") /\ last.a0type = TensorCls /\ last.a1type \in FeatureClasses) =>
        /\ last.cls = last.a1type
        /\ last.kind = "tensor"
        /\ Returned.type = TensorCls
        /\ Returned.dtype = heap[last.a1].dtype

C4_Witness ==
    /\ Called("to") /\ last.a0type = TensorCls /\ last.a1type = "Label" /\ last.cls = "Label"
    /\ heap[last.a0].dtype # heap[last.a1].dtype
    /\ Returned.type = TensorCls /\ Returned.dtype = heap[last.a1].dtype

\* C5: an in-place operation on a feature returns an object of type exactly
\* torch.Tensor while the operand keeps its feature class; requires_grad_
\* returns the very same feature object.
C5_InplaceNoWrapping ==
    /\ (OnFeature /\ last.func = "add_" /\ last.kind # "TypeError") =>
           /\ last.kind = "tensor"
           /\ Returned.type = TensorCls
           /\ heap[last.a0].type = last.a0type
    /\ (OnFeature /\ last.func = "requires_grad_") =>
           /\ last.kind = "tensor"
           /\ last.r = last.a0
           /\ Returned.type = last.a0type

\* C6 as stated: constructing a feature from a tensor, and new_like without
\* dtype and device, share the storage of the given tensor; the re-wrapped
\* feature carries the reference's metadata object.
C6_WrappingNeverCopies ==
    /\ (last.op = "construct" /\ last.a0 # 0 /\ last.dtype = None /\ last.device = None) =>
           Returned.storage = heap[last.a0].storage
    /\ (last.op = "new_like" /\ last.dtype = None /\ last.device = None) =>
           /\ Returned.storage = heap[last.a1].storage
           /\ last.meta = None => Returned.meta = heap[last.a0].meta

\* C6 as amended: new_like without dtype and device shares the storage of the
\* given tensor when that tensor has the reference's dtype and device.
C6_WrappingSharesStorage ==
    /\ (last.op = "construct" /\ last.a0 # 0 /\ last.dtype = None /\ last.device = None) =>
           /\ Returned.storage = heap[last.a0].storage
           /\ Returned.type = last.cls
    /\ (last.op = "new_like" /\ last.dtype = None /\ last.device = None) =>
           /\ Returned.type = last.cls
           /\ (heap[last.a1].dtype = heap[last.a0].dtype /\ heap[last.a1].device = heap[last.a0].device) =>
                  Returned.storage = heap[last.a1].storage
           /\ last.meta = None => Returned.meta = heap[last.a0].meta

C6_Witness ==
    /\ last.op = "new_like" /\ last.dtype = None /\ last.device = None /\ last.meta = None
    /\ last.a0 # last.a1 /\ heap[last.a1].type = TensorCls /\ last.cls = "Label"
    /\ heap[last.a1].dtype = heap[last.a0].dtype /\ heap[last.a1].device = heap[last.a0].device
    /\ heap[last.a1].storage # heap[last.a0].storage
    /\ Returned.storage = heap[last.a1].storage /\ Returned.meta = heap[last.a0].meta

\* ------------------------------------------------ bounding boxes and flips
\* A BoundingBox by value: data = the four coordinates, format, image_size =
\* <<height, width>>.
Formats == {"XYXY", "XYWH"}

xyxy_of(data, format) ==
    IF format = "XYWH" THEN <<data[1], data[2], data[1] + data[3], data[2] + data[4]>> ELSE data

from_xyxy(data, format) ==
    IF format = "XYWH" THEN <<data[1], data[2], data[3] - data[1], data[4] - data[2]>> ELSE data

\* F.horizontal_flip_bounding_box: in XYXY, x1 and x2 become width - x2 and width - x1
horizontal_flip_bounding_box(data, format, image_size) ==
    LET b == xyxy_of(data, format)
    IN from_xyxy(<<image_size[2] - b[3], b[2], image_size[2] - b[1], b[4]>>, format)

\* F.vertical_flip_bounding_box: in XYXY, y1 and y2 become height - y2 and height - y1
vertical_flip_bounding_box(data, format, image_size) ==
    LET b == xyxy_of(data, format)
    IN from_xyxy(<<b[1], image_size[1] - b[4], b[3], image_size[1] - b[2]>>, format)

\* BoundingBox.new_like by value
BoundingBox_new_like_value(other, data, format, image_size) ==
    [data |-> data,
     format |-> IF format # None THEN format ELSE other.format,
     image_size |-> IF image_size # << >> THEN image_size ELSE other.image_size]

BoundingBox_horizontal_flip_swapped(self) ==
    BoundingBox_new_like_value(self, vertical_flip_bounding_box(self.data, self.format, self.image_size), None, << >>)

\* BoundingBox.horizontal_flip
BoundingBox_horizontal_flip(self) ==
    BoundingBox_new_like_value(self, horizontal_flip_bounding_box(self.data, self.format, self.image_size), None, << >>)

\* BoundingBox.vertical_flip
BoundingBox_vertical_flip(self) ==
    BoundingBox_new_like_value(self, vertical_flip_bounding_box(self.data, self.format, self.image_size), None, << >>)

\* _RandomApplyTransform.forward with a sample drawn by torch.rand(1), in
\* tenths: the input is returned as it is when the sample is >= p
Tenths == {0, 5, 9}
Probabilities == {0, 5, 10}

random_apply(p, rand, flipped, inpt) == IF rand >= p THEN inpt ELSE flipped

\* the boxes of an image of height h and width w, in a format
BoxesOf(h, w, format) ==
    {[data |-> from_xyxy(c, format), format |-> format, image_size |-> <<h, w>>] :
        c \in {d \in (0..w) \X (0..h) \X (0..w) \X (0..h) : d[1] <= d[3] /\ d[2] <= d[4]}}

AllBoxes == UNION {BoxesOf(hw[1], hw[2], f) : hw \in (1..MaxSide) \X (1..MaxSide), f \in Formats}

NoBox == [data |-> << >>, format |-> None, image_size |-> << >>]

\* bb: a box, the flip applied to it and the output of the flip
InitBox ==
    /\ bb \in [op : {"init"}, p : {0}, rand : {0}, inpt : AllBoxes, out : {NoBox}]
    /\ heap = << >> /\ last = 0 /\ mix = 0 /\ uf = 0 /\ vc = 0 /\ LaterIdle

HorizontalFlip ==
    LET b == bb.inpt
    IN  /\ bb.op = "init"
        /\ bb' = [op |-> "horizontal_flip", p |-> 10, rand |-> 0, inpt |-> b, out |-> BoundingBox_horizontal_flip(b)]
        /\ UNCHANGED <<heap, last, mix, uf, vc, later>>

VerticalFlip ==
    LET b == bb.inpt
    IN  /\ bb.op = "init"
        /\ bb' = [op |-> "vertical_flip", p |-> 10, rand |-> 0, inpt |-> b, out |-> BoundingBox_vertical_flip(b)]
        /\ UNCHANGED <<heap, last, mix, uf, vc, later>>

\* transforms.RandomHorizontalFlip(p)(box)
RandomHorizontalFlip ==
    \E b \in {bb.inpt}, p \in Probabilities, rand \in Tenths :
        /\ bb.op = "init"
        /\ bb' = [op |-> "RandomHorizontalFlip", p |-> p, rand |-> rand, inpt |-> b,
                  out |-> random_apply(p, rand, BoundingBox_horizontal_flip(b), b)]
        /\ UNCHANGED <<heap, last, mix, uf, vc, later>>

\* transforms.RandomVerticalFlip(p)(box)
RandomVerticalFlip ==
    \E b \in {bb.inpt}, p \in Probabilities, rand \in Tenths :
        /\ bb.op = "init"
        /\ bb' = [op |-> "RandomVerticalFlip", p |-> p, rand |-> rand, inpt |-> b,
                  out |-> random_apply(p, rand, BoundingBox_vertical_flip(b), b)]
        /\ UNCHANGED <<heap, last, mix, uf, vc, later>>

NextBox == HorizontalFlip \/ VerticalFlip \/ RandomHorizontalFlip \/ RandomVerticalFlip

SpecBox == InitBox /\ [][NextBox]_vars

Flipped == bb.op \in {"horizontal_flip", "vertical_flip"} \/ (bb.op # "init" /\ bb.rand < bb.p)
Horizontal == bb.op \in {"horizontal_flip", "RandomHorizontalFlip"}
Vertical == bb.op \in {"vertical_flip", "RandomVerticalFlip"}

SampleClasses == {"Image", "Video", TensorCls, "OneHotLabel", "Label", "BoundingBox", "Mask", "PIL", "str", "int"}

\* utils.check_type / utils.has_any: isinstance for a class, a call for a check
check_type(c, types_or_checks) ==
    \E t \in types_or_checks : IF t = "is_simple_tensor" THEN is_simple_tensor(c) ELSE issubclass(c, t)

has_any(flat_inputs, types_or_checks) == \E c \in flat_inputs : check_type(c, types_or_checks)

\* _BaseMixupCutmix._check_inputs
check_inputs(flat_inputs) ==
    IF ~ (has_any(flat_inputs, {"Image", "Video", "is_simple_tensor"}) /\ has_any(flat_inputs, {"OneHotLabel"}))
    THEN "TypeError"
    ELSE IF has_any(flat_inputs, {"PIL", "BoundingBox", "Mask", "Label"})
         THEN "TypeError"
         ELSE "ok"

\* RandomMixup._transform / RandomCutmix._transform on one entry: images,
\* videos, plain tensors and one-hot labels are mixed and must be batched,
\* anything else passes through
transform_entry(c, batched) ==
    IF issubclass(c, "Image") \/ issubclass(c, "Video") \/ is_simple_tensor(c) \/ issubclass(c, "OneHotLabel")
    THEN IF batched THEN "mixed" ELSE "ValueError"
    ELSE "unchanged"

\* _RandomApplyTransform.forward: check the inputs, return the sample as it is
\* when torch.rand(1) >= p, otherwise transform every entry
forward_mix(flat_inputs, batched, p, rand) ==
    IF check_inputs(flat_inputs) # "ok" THEN [outcome |-> "TypeError", out |-> {}]
    ELSE IF rand >= p THEN [outcome |-> "ok", out |-> {<<c, "unchanged">> : c \in flat_inputs}]
    ELSE IF \E c \in flat_inputs : transform_entry(c, batched) = "ValueError"
         THEN [outcome |-> "ValueError", out |-> {}]
         ELSE [outcome |-> "ok", out |-> {<<c, transform_entry(c, batched)>> : c \in flat_inputs}]

\* mix: a sample, the transform applied to it and how the call ended
InitMix ==
    /\ mix \in [op : {"init"}, sample : SUBSET SampleClasses, batched : BOOLEAN, p : {0}, rand : {0},
                 outcome : {Idle}, out : {{}}]
    /\ heap = << >> /\ last = 0 /\ bb = 0 /\ uf = 0 /\ vc = 0 /\ LaterIdle

ApplyMix(name) ==
    \E p \in Probabilities, rand \in Tenths :
        LET f == forward_mix(mix.sample, mix.batched, p, rand)
        IN /\ mix.op = "init"
           /\ mix' = [mix EXCEPT !.op = name, !.p = p, !.rand = rand, !.outcome = f.outcome, !.out = f.out]
           /\ UNCHANGED <<heap, last, bb, uf, vc, later>>

RandomMixup == ApplyMix("RandomMixup")

RandomCutmix == ApplyMix("RandomCutmix")

NextMix == RandomMixup \/ RandomCutmix

SpecMix == InitMix /\ [][NextMix]_vars

\* C8: RandomMixup and RandomCutmix accept a sample of a batched Image and a
\* batched OneHotLabel, with or without further non-tensor entries, which pass
\* through unchanged, and raise TypeError when the sample also holds a plain
\* Label, a BoundingBox or a mask.
C8_MixupCutmixInputs ==
    (mix.op # "init" /\ mix.batched /\ {"Image", "OneHotLabel"} \subseteq mix.sample) =>
        /\ mix.sample \subseteq {"Image", "OneHotLabel", "str", "int"} =>
               /\ mix.outcome = "ok"
               /\ \A c \in mix.sample \cap {"str", "int"} : <<c, "unchanged">> \in mix.out
        /\ mix.sample \cap {"Label", "BoundingBox", "Mask"} # {} => mix.outcome = "TypeError"

\* ------------------------------------------------------------------ unfold
\* A 1-D tensor is a strided view of a storage: element i of the tensor is the
\* storage element offset + i * stride.  A 2-D view has two sizes and strides.
Max(a, b) == IF a > b THEN a ELSE b

TensorAt(t, i) == t.offset + i * t.stride

ViewAt(v, i, j) == v.offset + i * v.stride[1] + j * v.stride[2]

\* torch.as_strided(tensor, size, stride): same storage and offset
as_strided(tensor, size, stride) == [offset |-> tensor.offset, size |-> size, stride |-> stride]

unfold_no_dilation(tensor, size, step, dilation) ==
    LET o_stride == tensor.stride
        first == (tensor.numel - size) \div step + 1
    IN as_strided(tensor, IF first < 1 THEN <<0, size>> ELSE <<first, size>>,
                  <<step * o_stride, dilation * o_stride>>)

\* video_utils.unfold
unfold(tensor, size, step, dilation) ==
    LET o_stride == tensor.stride
        numel == tensor.numel
        new_stride == <<step * o_stride, dilation * o_stride>>
        first == (numel - (dilation * (size - 1) + 1)) \div step + 1
        new_size == IF first < 1 THEN <<0, size>> ELSE <<first, size>>
    IN as_strided(tensor, new_size, new_stride)

Strides == {1, 2}
Offsets == {0, 1}

\* uf: the arguments of a call of unfold and its result
InitUnfold ==
    /\ uf \in [op : {"init"},
                tensor : [offset : Offsets, stride : Strides, numel : 0..MaxLen],
                size : 1..MaxWindow, step : 1..MaxWindow, dilation : 1..MaxWindow,
                result : {[offset |-> 0, size |-> <<0, 0>>, stride |-> <<0, 0>>]}]
    /\ heap = << >> /\ last = 0 /\ bb = 0 /\ mix = 0 /\ vc = 0 /\ LaterIdle

Unfold ==
    /\ uf.op = "init"
    /\ uf' = [uf EXCEPT !.op = "unfold", !.result = unfold(uf.tensor, uf.size, uf.step, uf.dilation)]
    /\ UNCHANGED <<heap, last, bb, mix, vc, later>>

NextUnfold == Unfold

SpecUnfold == InitUnfold /\ [][NextUnfold]_vars

\* C9: unfold returns max(0, floor((n - (dilation*(size-1)+1)) / step) + 1)
\* windows of size elements, which are all the windows that start at a
\* multiple of step and fit in the tensor; element j of window i is
\* tensor[i*step + j*dilation], which lies inside the tensor.
C9_UnfoldWindows ==
    LET n == uf.tensor.numel
        windows == uf.result.size[1]
    IN uf.op = "unfold" =>
        /\ windows = Max(0, (n - (uf.dilation * (uf.size - 1) + 1)) \div uf.step + 1)
        /\ windows = Cardinality({i \in 0..n : i * uf.step + (uf.size - 1) * uf.dilation <= n - 1})
        /\ uf.result.size[2] = uf.size
        /\ \A i \in 0..(windows - 1), j \in 0..(uf.size - 1) :
               /\ i * uf.step + j * uf.dilation <= n - 1
               /\ ViewAt(uf.result, i, j) = TensorAt(uf.tensor, i * uf.step + j * uf.dilation)
        /\ n < uf.dilation * (uf.size - 1) + 1 => windows = 0

C9_Witness ==
    /\ uf.op = "unfold" /\ uf.tensor.numel = 5 /\ uf.tensor.stride = 2
    /\ uf.size = 2 /\ uf.step = 2 /\ uf.dilation = 2
    /\ uf.result.size = <<2, 2>>

\* -------------------------------------------------------------- VideoClips
\* The timestamps of a video of n frames are the contiguous tensor 0..n-1;
\* a 2-D view is read out as the sequence of its rows.
RowsOf(v) == [i \in 1..v.size[1] |-> [j \in 1..v.size[2] |-> ViewAt(v, i - 1, j - 1)]]

Contiguous(n) == [offset |-> 0, stride |-> 1, numel |-> n]

RECURSIVE cumsum(_)
cumsum(lengths) ==
    IF lengths = << >> THEN << >>
    ELSE LET front == cumsum(SubSeq(lengths, 1, Len(lengths) - 1))
         IN Append(front, (IF front = << >> THEN 0 ELSE front[Len(front)]) + lengths[Len(lengths)])

\* bisect.bisect_right(a, x), indices counted from 0
RECURSIVE bisect_right_from(_, _, _, _)
bisect_right_from(a, x, lo, hi) ==
    IF lo < hi
    THEN LET mid == (lo + hi) \div 2
         IN IF x < a[mid + 1] THEN bisect_right_from(a, x, lo, mid) ELSE bisect_right_from(a, x, mid + 1, hi)
    ELSE lo

bisect_right(a, x) == bisect_right_from(a, x, 0, Len(a))

RECURSIVE bisect_left_from(_, _, _, _)
bisect_left_from(a, x, lo, hi) ==
    IF lo < hi
    THEN LET mid == (lo + hi) \div 2
         IN IF a[mid + 1] < x THEN bisect_left_from(a, x, mid + 1, hi) ELSE bisect_left_from(a, x, lo, mid)
    ELSE lo

\* VideoClips.compute_clips: the fields it sets
compute_clips(video_pts, num_frames, step, dilation) ==
    LET clips == [v \in 1..Len(video_pts) |-> RowsOf(unfold(Contiguous(video_pts[v]), num_frames, step, dilation))]
    IN [video_pts |-> video_pts, num_frames |-> num_frames, step |-> step, dilation |-> dilation,
        clips |-> clips,
        cumulative_sizes |-> cumsum([v \in 1..Len(clips) |-> Len(clips[v])])]

\* VideoClips.num_videos
num_videos(self) == Len(self.video_pts)

\* VideoClips.num_clips
num_clips(self) == self.cumulative_sizes[Len(self.cumulative_sizes)]

get_clip_location_bisect_left(self, idx) ==
    LET video_idx == bisect_left_from(self.cumulative_sizes, idx, 0, Len(self.cumulative_sizes))
    IN IF video_idx = 0 THEN <<video_idx, idx>> ELSE <<video_idx, idx - self.cumulative_sizes[video_idx]>>

\* VideoClips.get_clip_location: <<video_idx, clip_idx>>, both counted from 0
get_clip_location(self, idx) ==
    LET video_idx == bisect_right(self.cumulative_sizes, idx)
    IN IF video_idx = 0 THEN <<video_idx, idx>> ELSE <<video_idx, idx - self.cumulative_sizes[video_idx]>>

\* tensor[i] for a Python index i on n rows: a negative index counts from the
\* end, an index outside -n..n-1 raises IndexError
PyIndex(n, i) == IF i >= n \/ i < -n THEN -1 ELSE IF i < 0 THEN n + i ELSE i

\* VideoClips.get_clip up to and including read_video
get_clip(self, idx) ==
    IF idx >= num_clips(self)
    THEN [raised |-> "IndexError", loc |-> << >>, read |-> << >>]
    ELSE LET loc == get_clip_location(self, idx)
             clips == self.clips[loc[1] + 1]
             row == PyIndex(Len(clips), loc[2])
         IN IF row = -1
            THEN [raised |-> "IndexError", loc |-> loc, read |-> << >>]
            ELSE [raised |-> Idle, loc |-> loc, read |-> clips[row + 1]]

\* the frame counts of the videos of a VideoClips object
VideoLists == UNION {[1..n -> 0..MaxFrames] : n \in 1..MaxVideos}

\* vc: self = the fields of a VideoClips object, then the call made last on
\* it, its argument and its result (loc), the exception it raised and the
\* timestamps of the clip it read from a video file (read).  VideoClips.__init__ reads the timestamps
\* and calls compute_clips(clip_length_in_frames, frames_between_clips).
InitClips ==
    /\ \E video_pts \in VideoLists, clip_length_in_frames \in 1..MaxWindow, frames_between_clips \in 1..MaxWindow :
           vc = [self |-> compute_clips(video_pts, clip_length_in_frames, frames_between_clips, 1),
                 op |-> "init", idx |-> 0, loc |-> << >>, raised |-> Idle, read |-> << >>]
    /\ heap = << >> /\ last = 0 /\ bb = 0 /\ mix = 0 /\ uf = 0 /\ LaterIdle

ComputeClips ==
    \E num_frames \in 1..MaxWindow, step \in 1..MaxWindow, dilation \in 1..2 :
        /\ vc' = [self |-> compute_clips(vc.self.video_pts, num_frames, step, dilation),
                  op |-> "compute_clips", idx |-> 0, loc |-> << >>, raised |-> Idle, read |-> << >>]
        /\ UNCHANGED <<heap, last, bb, mix, uf, later>>

GetClipLocation ==
    \E idx \in (-1)..num_clips(vc.self) :
        /\ vc' = [vc EXCEPT !.op = "get_clip_location", !.idx = idx, !.loc = get_clip_location(vc.self, idx),
                            !.raised = Idle, !.read = << >>]
        /\ UNCHANGED <<heap, last, bb, mix, uf, later>>

GetClip ==
    \E idx \in (-2)..(num_clips(vc.self) + 1) :
        LET g == get_clip(vc.self, idx)
        IN /\ vc' = [vc EXCEPT !.op = "get_clip", !.idx = idx, !.loc = g.loc, !.raised = g.raised, !.read = g.read]
           /\ UNCHANGED <<heap, last, bb, mix, uf, later>>

NextClips == ComputeClips \/ GetClipLocation \/ GetClip

SpecClips == InitClips /\ [][NextClips]_vars

RECURSIVE ClipsBefore(_, _)
ClipsBefore(clips, v) == IF v = 0 THEN 0 ELSE ClipsBefore(clips, v - 1) + Len(clips[v])

\* C10: for 0 <= idx < num_clips(), get_clip_location(idx) is a video and a
\* clip of that video, idx is the number of clips of the videos before it plus
\* the clip index, and no other flat index has the same location.
C10_ClipLocation ==
    (vc.op = "get_clip_location" /\ 0 <= vc.idx /\ vc.idx < num_clips(vc.self)) =>
        LET video_idx == vc.loc[1]
            clip_idx == vc.loc[2]
        IN /\ 0 <= video_idx /\ video_idx < num_videos(vc.self)
           /\ 0 <= clip_idx /\ clip_idx < Len(vc.self.clips[video_idx + 1])
           /\ vc.idx = ClipsBefore(vc.self.clips, video_idx) + clip_idx
           /\ \A other \in 0..(num_clips(vc.self) - 1) :
                  other # vc.idx => get_clip_location(vc.self, other) # vc.loc

C10_Witness ==
    /\ vc.op = "get_clip_location" /\ Len(vc.self.clips) = 3
    /\ Len(vc.self.clips[1]) = 0 /\ Len(vc.self.clips[2]) = 0 /\ Len(vc.self.clips[3]) = 2
    /\ vc.idx = 1 /\ vc.loc = <<2, 1>>

\* C11: get_clip(idx) raises IndexError, before any video is read, for every
\* idx outside 0..num_clips()-1, negative indices included.
C11_GetClipRange ==
    (vc.op = "get_clip" /\ (vc.idx < 0 \/ vc.idx >= num_clips(vc.self))) =>
        vc.raised = "IndexError" /\ vc.read = << >>

\* ------------------------------------------------ RandomMaxVideoClipSampler
Min(a, b) == IF a < b THEN a ELSE b

\* torch.randperm(n): any order of 0..n-1
RECURSIVE OrdersOf(_)
OrdersOf(S) == IF S = {} THEN {<< >>} ELSE UNION {{<<x>> \o o : o \in OrdersOf(S \ {x})} : x \in S}

sampled_without_offset(perm, size, s) == SubSeq(perm, 1, size)

\* sampled = torch.randperm(length)[:size] + s, for the permutation drawn
sampled_from(perm, size, s) == [i \in 1..size |-> perm[i] + s]

\* the loop of __iter__ from video v on: every value torch.cat(idxs) can take
RECURSIVE sampled_idxs(_, _, _, _)
sampled_idxs(clips, max_clips_per_video, v, s) ==
    IF v > Len(clips) THEN {<< >>}
    ELSE LET length == Len(clips[v])
             size == Min(length, max_clips_per_video)
         IN UNION {{sampled_from(perm, size, s) \o rest :
                        rest \in sampled_idxs(clips, max_clips_per_video, v + 1, s + length)} :
                   perm \in OrdersOf(0..(length - 1))}

\* RandomMaxVideoClipSampler.__iter__: every list it can yield
sampler_iter(video_clips, max_clips_per_video) ==
    UNION {{[i \in 1..Len(idxs) |-> idxs[perm[i] + 1]] : perm \in OrdersOf(0..(Len(idxs) - 1))} :
           idxs \in sampled_idxs(video_clips.clips, max_clips_per_video, 1, 0)}

\* RandomMaxVideoClipSampler.__len__: the sum over the first v videos
RECURSIVE sampler_len(_, _, _)
sampler_len(clips, max_clips_per_video, v) ==
    IF v = 0 THEN 0
    ELSE sampler_len(clips, max_clips_per_video, v - 1) + Min(Len(clips[v]), max_clips_per_video)

\* smp: the sampler (its VideoClips and max_clips_per_video) and the indices
\* the last iteration yielded
InitSampler ==
    /\ \E video_pts \in UNION {[1..n -> 0..MaxSamplerFrames] : n \in 1..MaxSamplerVideos}, clip_length_in_frames \in 1..2, frames_between_clips \in 1..2,
          max_clips_per_video \in 0..MaxPerVideo :
           smp = [video_clips |-> compute_clips(video_pts, clip_length_in_frames, frames_between_clips, 1),
                  max_clips_per_video |-> max_clips_per_video, op |-> "init", idxs |-> << >>]
    /\ EarlyIdle /\ reg = 0 /\ rel = 0 /\ raft = 0 /\ san = 0 /\ cp = 0 /\ pd = 0

SamplerIter ==
    \E idxs \in sampler_iter(smp.video_clips, smp.max_clips_per_video) :
        /\ smp' = [smp EXCEPT !.op = "iter", !.idxs = idxs]
        /\ UNCHANGED <<early, reg, rel, raft, san, cp, pd>>

NextSampler == SamplerIter

SpecSampler == InitSampler /\ [][NextSampler]_vars

\* C12: an iteration yields pairwise distinct flat indices in
\* 0..num_clips()-1, exactly min(clips of the video, max_clips_per_video) of
\* them in every video, and as many indices as __len__() says.
C12_SamplerIndices ==
    smp.op = "iter" =>
        LET clips == smp.video_clips.clips
            InVideo(v) == {i \in 1..Len(smp.idxs) :
                              /\ ClipsBefore(clips, v - 1) <= smp.idxs[i]
                              /\ smp.idxs[i] < ClipsBefore(clips, v)}
        IN /\ \A i, j \in 1..Len(smp.idxs) : i # j => smp.idxs[i] # smp.idxs[j]
           /\ \A i \in 1..Len(smp.idxs) : 0 <= smp.idxs[i] /\ smp.idxs[i] < num_clips(smp.video_clips)
           /\ \A v \in 1..Len(clips) :
                  Cardinality(InVideo(v)) = Min(Len(clips[v]), smp.max_clips_per_video)
           /\ Len(smp.idxs) = sampler_len(clips, smp.max_clips_per_video, Len(clips))

C12_Witness ==
    /\ smp.op = "iter" /\ smp.max_clips_per_video = 1
    /\ Len(smp.video_clips.clips) = 2
    /\ Len(smp.video_clips.clips[1]) = 2 /\ Len(smp.video_clips.clips[2]) = 2
    /\ smp.idxs = <<3, 0>>
\* ------------------------------------------------ kernel registry (v2)
VisionTensorCls == "VisionTensor"

\* the classes kernels are looked up for: torch.Tensor, the base class of the
\* vision tensors, a builtin vision tensor and a user-defined subclass of it
RegistryTypes == {TensorCls, VisionTensorCls, "Image", "MyImage"}

\* input_type.__mro__, object left out (nothing is registered for it)
mro(t) ==
    CASE t = TensorCls -> <<TensorCls>>
      [] t = VisionTensorCls -> <<VisionTensorCls, TensorCls>>
      [] t = "Image" -> <<"Image", VisionTensorCls, TensorCls>>
      [] t = "MyImage" -> <<"MyImage", "Image", VisionTensorCls, TensorCls>>

issubclass_mro(c, t) == \E i \in 1..Len(mro(c)) : mro(c)[i] = t

\* the vision tensor classes defined by torchvision.vision_tensors itself
BUILTIN_DATAPOINT_TYPES == {VisionTensorCls, "Image"}

Functionals == {"resize", "five_crop"}

\* what register_kernel can be handed as its functional: a callable with its
\* __module__, or a name
FunctionalArgs ==
    {[kind |-> "callable", name |-> "resize", module |-> "torchvision.transforms.v2.functional"],
     [kind |-> "callable", name |-> "user_fn", module |-> "mylib"],
     [kind |-> "str", name |-> "resize", module |-> ""],
     [kind |-> "str", name |-> "nope", module |-> ""]}

NoKernel == [kernel |-> 0, wrapper |-> "-"]

Passthrough == [kernel |-> 0, wrapper |-> "passthrough"]

EmptyRegistry == [t \in RegistryTypes |-> NoKernel]

in_registry(R, functional, input_type) == R.of[functional][input_type] # NoKernel

\* registry = _KERNEL_REGISTRY.setdefault(functional, {})
setdefault(R, functional) == [R EXCEPT !.created = @ \cup {functional}]

\* _register_kernel_internal up to the decorator it returns
register_kernel_internal(R, functional, input_type, vision_tensor_wrapper) ==
    IF in_registry(R, functional, input_type)
    THEN [raised |-> "ValueError", R |-> setdefault(R, functional), decorator |-> {}]
    ELSE [raised |-> Idle, R |-> setdefault(R, functional),
          decorator |-> {[functional |-> functional, input_type |-> input_type, route |-> "internal",
                          vision_tensor_wrapper |-> vision_tensor_wrapper]}]

\* _register_five_ten_crop_kernel_internal up to the decorator it returns
register_five_ten_crop_kernel_internal(R, functional, input_type) ==
    IF in_registry(R, functional, input_type)
    THEN [raised |-> "TypeError", R |-> setdefault(R, functional), decorator |-> {}]
    ELSE [raised |-> Idle, R |-> setdefault(R, functional),
          decorator |-> {[functional |-> functional, input_type |-> input_type, route |-> "five_ten_crop",
                          vision_tensor_wrapper |-> TRUE]}]

\* registry[input_type] = ... in either decorator: the kernel, wrapped or not
decorator(R, d, kernel) ==
    [R EXCEPT !.of[d.functional][d.input_type] =
        IF d.route = "internal"
        THEN [kernel |-> kernel,
              wrapper |-> IF issubclass_mro(d.input_type, VisionTensorCls) /\ d.vision_tensor_wrapper
                          THEN "vision_tensor" ELSE "none"]
        ELSE [kernel |-> kernel,
              wrapper |-> IF issubclass_mro(d.input_type, VisionTensorCls) THEN "five_ten_crop" ELSE "none"]]

register_kernel(R, functional, vision_tensor_cls) ==
    LET refused == [raised |-> "ValueError", R |-> R, decorator |-> {}]
        resolved == functional.name
    IN IF functional.kind = "str" /\ resolved \notin Functionals THEN refused
       ELSE IF functional.kind # "str" /\ functional.module # "torchvision.transforms.v2.functional" THEN refused
       ELSE IF ~ (vision_tensor_cls \in RegistryTypes /\ issubclass_mro(vision_tensor_cls, VisionTensorCls)) THEN refused
       ELSE IF vision_tensor_cls \in BUILTIN_DATAPOINT_TYPES THEN refused
       ELSE register_kernel_internal(R, resolved, vision_tensor_cls, FALSE)

\* the loop of _get_kernel over input_type.__mro__ from position i on
RECURSIVE mro_lookup_no_break(_, _, _)
mro_lookup_no_break(registry, classes, i) ==
    IF i > Len(classes) THEN NoKernel
    ELSE IF registry[classes[i]] # NoKernel THEN registry[classes[i]]
    ELSE mro_lookup_no_break(registry, classes, i + 1)

RECURSIVE mro_lookup(_, _, _)
mro_lookup(registry, classes, i) ==
    IF i > Len(classes) THEN NoKernel
    ELSE IF registry[classes[i]] # NoKernel THEN registry[classes[i]]
    ELSE IF classes[i] = VisionTensorCls THEN NoKernel
    ELSE mro_lookup(registry, classes, i + 1)

get_kernel(R, functional, input_type, allow_passthrough) ==
    IF functional \notin R.created \/ R.of[functional] = EmptyRegistry
    THEN [raised |-> "ValueError", result |-> NoKernel]
    ELSE LET found == mro_lookup(R.of[functional], mro(input_type), 1)
         IN IF found # NoKernel THEN [raised |-> Idle, result |-> found]
            ELSE IF allow_passthrough THEN [raised |-> Idle, result |-> Passthrough]
            ELSE [raised |-> "TypeError", result |-> NoKernel]

\* reg: the registry R (created holds the functionals that have a dictionary,
\* of their dictionaries), the decorators handed out and not yet garbage, the
\* number of registration calls and of decorated kernels, and the last call
InitRegistry ==
    /\ reg = [R |-> [created |-> {}, of |-> [f \in Functionals |-> EmptyRegistry]], decorators |-> {}, calls |-> 0, kernels |-> 0,
              op |-> "init", functional |-> None, input_type |-> None, allow_passthrough |-> FALSE,
              raised |-> Idle, result |-> NoKernel]
    /\ EarlyIdle /\ smp = 0 /\ rel = 0 /\ raft = 0 /\ san = 0 /\ cp = 0 /\ pd = 0

Registered(op, functional, input_type, r) ==
    /\ reg' = [reg EXCEPT !.R = r.R, !.decorators = @ \cup r.decorator, !.calls = @ + 1,
                          !.op = op, !.functional = functional, !.input_type = input_type,
                          !.allow_passthrough = FALSE, !.raised = r.raised, !.result = NoKernel]
    /\ UNCHANGED <<early, smp, rel, raft, san, cp, pd>>

RegisterKernelInternal ==
    /\ reg.calls < MaxRegistered
    /\ \E functional \in Functionals, input_type \in RegistryTypes, vision_tensor_wrapper \in BOOLEAN :
           Registered("_register_kernel_internal", functional, input_type,
                      register_kernel_internal(reg.R, functional, input_type, vision_tensor_wrapper))

RegisterFiveTenCropKernelInternal ==
    /\ reg.calls < MaxRegistered
    /\ \E functional \in Functionals, input_type \in RegistryTypes :
           Registered("_register_five_ten_crop_kernel_internal", functional, input_type,
                      register_five_ten_crop_kernel_internal(reg.R, functional, input_type))

RegisterKernel ==
    /\ reg.calls < MaxRegistered
    /\ \E functional \in FunctionalArgs, vision_tensor_cls \in RegistryTypes \cup {"NotAClass"} :
           Registered("register_kernel", functional.name, vision_tensor_cls,
                      register_kernel(reg.R, functional, vision_tensor_cls))

\* a decorator that was handed out is applied to the next kernel function
Decorate ==
    /\ reg.kernels < MaxDecorated
    /\ \E d \in reg.decorators :
           /\ reg' = [reg EXCEPT !.R = decorator(reg.R, d, reg.kernels + 1), !.kernels = @ + 1,
                                 !.op = "decorator", !.functional = d.functional,
                                 !.input_type = d.input_type, !.allow_passthrough = FALSE,
                                 !.raised = Idle, !.result = NoKernel]
           /\ UNCHANGED <<early, smp, rel, raft, san, cp, pd>>

GetKernel ==
    \E functional \in Functionals, input_type \in RegistryTypes, allow_passthrough \in BOOLEAN :
        LET g == get_kernel(reg.R, functional, input_type, allow_passthrough)
        IN /\ reg' = [reg EXCEPT !.op = "_get_kernel", !.functional = functional,
                                 !.input_type = input_type, !.allow_passthrough = allow_passthrough,
                                 !.raised = g.raised, !.result = g.result]
           /\ UNCHANGED <<early, smp, rel, raft, san, cp, pd>>

NextRegistry ==
    \/ RegisterKernelInternal
    \/ RegisterFiveTenCropKernelInternal
    \/ RegisterKernel
    \/ Decorate
    \/ GetKernel

SpecRegistry == InitRegistry /\ [][NextRegistry]_vars

\* the classes of input_type's MRO a kernel may come from: all of them for a
\* class outside the vision tensors, the vision tensor classes otherwise
Eligible(input_type) ==
    {i \in 1..Len(mro(input_type)) :
        issubclass_mro(input_type, VisionTensorCls) => issubclass_mro(mro(input_type)[i], VisionTensorCls)}

Matching(input_type, registry) == {i \in Eligible(input_type) : registry[mro(input_type)[i]] # NoKernel}

\* C13: _get_kernel returns the kernel of the first class of the MRO that has
\* one, never the torch.Tensor kernel for a vision tensor class; without a
\* match it returns the pass-through if allowed and raises TypeError if not,
\* and it raises ValueError for a functional without any kernel.
C13_GetKernel ==
    reg.op = "_get_kernel" =>
        LET registry == reg.R.of[reg.functional]
            matching == Matching(reg.input_type, registry)
        IN IF \A t \in RegistryTypes : registry[t] = NoKernel
           THEN reg.raised = "ValueError"
           ELSE IF matching # {}
           THEN /\ reg.raised = Idle
                /\ \E i \in matching :
                       /\ \A j \in matching : i <= j
                       /\ reg.result = registry[mro(reg.input_type)[i]]
           ELSE IF reg.allow_passthrough
           THEN reg.raised = Idle /\ reg.result = Passthrough
           ELSE reg.raised = "TypeError"

C13_Witness ==
    /\ reg.op = "_get_kernel" /\ reg.input_type = "MyImage" /\ reg.functional = "resize"
    /\ reg.R.of["resize"][TensorCls] # NoKernel
    /\ reg.R.of["resize"]["Image"] = NoKernel /\ reg.R.of["resize"]["MyImage"] = NoKernel
    /\ reg.raised = "TypeError"

\* C14: a registry entry, once made, is never replaced; registering for a pair
\* that has a kernel raises (ValueError, or TypeError for five/ten crop); and
\* register_kernel raises ValueError and leaves the registry alone for a
\* builtin class, a class outside the vision tensors, and a foreign functional.
C14_FirstKernelStays ==
    [][/\ \A f \in Functionals, t \in RegistryTypes :
              in_registry(reg.R, f, t) => reg'.R.of[f][t] = reg.R.of[f][t]
       /\ (/\ reg'.op \in {"_register_kernel_internal", "_register_five_ten_crop_kernel_internal"}
           /\ reg'.calls = reg.calls + 1
           /\ in_registry(reg.R, reg'.functional, reg'.input_type))
              => /\ reg'.raised = IF reg'.op = "_register_kernel_internal" THEN "ValueError" ELSE "TypeError"
                 /\ reg'.R.of = reg.R.of
       /\ (/\ reg'.op = "register_kernel"
           /\ reg'.calls = reg.calls + 1
           /\ \/ reg'.input_type \in BUILTIN_DATAPOINT_TYPES
              \/ reg'.input_type \notin {"Image", "MyImage", VisionTensorCls}
              \/ reg'.functional \notin Functionals)
              => reg'.raised = "ValueError" /\ reg'.R = reg.R]_vars
\* ------------------------------------------------ relocate_library
Binary == "_C.so"

LibNames == <<"libpng.so.16", "libjpeg.so.8", "libz.so.1", "libwebp.so.7">>

\* one system library of the WHITELIST, found on the system
WHITELIST == {"libc.so.6"}

\* a library lddtree could not find: its path is None
MissingLib == "libnvjpeg.so.11"

TreeLibNames == {LibNames[i] : i \in 1..MaxLibs} \cup WHITELIST \cup {MissingLib}

NameOrder == LibNames \o <<"libc.so.6", MissingLib>>

RECURSIVE ListOf(_, _)
ListOf(S, i) ==
    IF i > Len(NameOrder) THEN << >>
    ELSE (IF NameOrder[i] \in S THEN <<NameOrder[i]>> ELSE << >>) \o ListOf(S, i + 1)

\* the 'needed' lists an ELF file can have
NeededLists == {ListOf(S, 1) : S \in {T \in SUBSET TreeLibNames : Cardinality(T) <= MaxNeeded}}

\* lddtree(binary_path): 'needed' of the binary and 'libs' with path and needed
LddTrees ==
    {[needed |-> n, libs |-> l] :
        n \in NeededLists,
        l \in {t \in [TreeLibNames -> [path : {None, "/usr/lib"}, needed : NeededLists]] :
                  /\ t[MissingLib] = [path |-> None, needed |-> << >>]
                  /\ \A w \in WHITELIST : t[w] = [path |-> "/usr/lib", needed |-> << >>]
                  /\ \A i \in 1..MaxLibs : t[LibNames[i]].path = "/usr/lib"}}

\* [(n, parent) for n in needed]
needed_of(needed, parent) == [i \in 1..Len(needed) |-> <<needed[i], parent>>]

omitted_path_only(library_info, library) == library_info.path = None

\* the two tests of the loop that skip a library
omitted(library_info, library) == library_info.path = None \/ library \in WHITELIST

InSeq(x, q) == \E i \in 1..Len(q) : q[i] = x

\* one iteration of `while binary_queue != []`
traverse(r) ==
    LET library == r.binary_queue[1][1]
        parent == r.binary_queue[1][2]
        library_info == r.tree_libs[library]
        popped == [r EXCEPT !.binary_queue = Tail(@)]
    IN IF omitted(library_info, library) THEN popped
       ELSE LET recorded == [popped EXCEPT !.binary_dependencies[parent] = Append(@, library)]
            IN IF InSeq(library, r.binary_paths) THEN recorded
               ELSE [recorded EXCEPT !.binary_paths = Append(@, library),
                                     !.binary_queue = @ \o needed_of(library_info.needed, library)]

\* rel: the locals of relocate_library; binary_paths holds the keys of the
\* dictionary in insertion order, copied the libraries handed to shutil.copyfile
InitRelocate ==
    /\ \E ld_tree \in LddTrees :
           rel = [pc |-> "traverse", tree_libs |-> ld_tree.libs, needed |-> ld_tree.needed,
                  binary_queue |-> needed_of(ld_tree.needed, Binary),
                  binary_paths |-> <<Binary>>,
                  binary_dependencies |-> [n \in TreeLibNames \cup {Binary} |-> << >>],
                  next |-> 1, copied |-> << >>]
    /\ EarlyIdle /\ smp = 0 /\ reg = 0 /\ raft = 0 /\ san = 0 /\ cp = 0 /\ pd = 0

Traverse ==
    /\ rel.pc = "traverse" /\ rel.binary_queue # << >>
    /\ rel' = traverse(rel)
    /\ UNCHANGED <<early, smp, reg, raft, san, cp, pd>>

\* the queue is empty: os.makedirs and the start of the copying loop
EndTraverse ==
    /\ rel.pc = "traverse" /\ rel.binary_queue = << >>
    /\ rel' = [rel EXCEPT !.pc = "copy"]
    /\ UNCHANGED <<early, smp, reg, raft, san, cp, pd>>

\* one iteration of `for library in binary_paths`
CopyLibrary ==
    /\ rel.pc = "copy" /\ rel.next <= Len(rel.binary_paths)
    /\ rel' = [rel EXCEPT !.next = @ + 1,
                          !.copied = IF rel.binary_paths[rel.next] # Binary
                                     THEN Append(@, rel.binary_paths[rel.next]) ELSE @]
    /\ UNCHANGED <<early, smp, reg, raft, san, cp, pd>>

EndCopy ==
    /\ rel.pc = "copy" /\ rel.next > Len(rel.binary_paths)
    /\ rel' = [rel EXCEPT !.pc = "copied"]
    /\ UNCHANGED <<early, smp, reg, raft, san, cp, pd>>

NextRelocate == Traverse \/ EndTraverse \/ CopyLibrary \/ EndCopy

SpecRelocate == InitRelocate /\ [][NextRelocate]_vars

\* the interpreter keeps executing the function
SpecRelocateLive == SpecRelocate /\ WF_vars(NextRelocate)

NeededBy(n) == IF n = Binary THEN rel.needed ELSE rel.tree_libs[n].needed

Relocatable(n) == rel.tree_libs[n].path # None /\ n \notin WHITELIST

\* the libraries reachable from the binary in at most k 'needed' steps along
\* relocatable libraries
RECURSIVE Reach(_)
Reach(k) ==
    IF k = 0 THEN {Binary}
    ELSE LET R == Reach(k - 1)
         IN R \cup {n \in TreeLibNames : Relocatable(n) /\ \E q \in R : InSeq(n, NeededBy(q))}

Closure == Reach(Cardinality(TreeLibNames))

Count(x, q) == Cardinality({i \in 1..Len(q) : q[i] = x})

ClosureRelocated ==
    /\ rel.pc = "copied"
    /\ {rel.binary_paths[i] : i \in 1..Len(rel.binary_paths)} = Closure
    /\ \A q \in TreeLibNames \cup {Binary}, n \in TreeLibNames :
           Count(n, rel.binary_dependencies[q]) =
               IF q \in Closure /\ Relocatable(n) /\ InSeq(n, NeededBy(q)) THEN 1 ELSE 0
    /\ \A n \in TreeLibNames : Count(n, rel.copied) = IF n \in Closure THEN 1 ELSE 0

conv_out(h, k, s, p) == ((h + 2 * p - k) \div s) + 1

RECURSIVE Pow2(_)
Pow2(n) == IF n = 0 THEN 1 ELSE 2 * Pow2(n - 1)

\* the two builders: raft_stereo_realtime and raft_stereo
Builders ==
    {[name |-> "raft_stereo_realtime", strides |-> <<2, 1, 2, 2>>, num_level |-> 2,
      corr_num_levels |-> 4, use_mask_predictor |-> TRUE, slow_fast |-> TRUE],
     [name |-> "raft_stereo", strides |-> <<1, 1, 2, 2>>, num_level |-> 3,
      corr_num_levels |-> 4, use_mask_predictor |-> TRUE, slow_fast |-> FALSE]}

\* BaseEncoder.downsampling_ratio
downsampling_ratio(strides) == Pow2((strides[1] - 1) + (strides[2] - 1) + (strides[3] - 1) + (strides[4] - 1))

\* raft.ResidualBlock: 3x3 convolution of the given stride, padding 1
ResidualBlock(h, stride) == conv_out(h, 3, stride, 1)

\* BaseEncoder.forward on one spatial side: 7x7 convolution and three layers
BaseEncoder(h, strides) ==
    ResidualBlock(ResidualBlock(ResidualBlock(conv_out(h, 7, strides[1], 3), strides[2]), strides[3]), strides[4])

\* FeatureEncoder.forward: the residual block and the convolution keep the size
FeatureEncoder(hw, strides) == <<BaseEncoder(hw[1], strides), BaseEncoder(hw[2], strides)>>

\* MultiLevelContextEncoder.forward after its base encoder: the sizes of the
\* outputs, largest first
RECURSIVE context_levels(_, _)
context_levels(hw, n) ==
    IF n = 0 THEN << >>
    ELSE <<hw>> \o context_levels(<<ResidualBlock(hw[1], 2), ResidualBlock(hw[2], 2)>>, n - 1)

\* CorrPyramid1d.forward: F.avg_pool2d(kernel (1, 2), stride (1, 2)) fails on
\* a volume of width 1
RECURSIVE CorrPyramid1d(_, _)
CorrPyramid1d(w, num_levels) ==
    IF num_levels = 1 THEN "ok"
    ELSE IF conv_out(w, 2, 2, 0) < 1 THEN "RuntimeError"
    ELSE CorrPyramid1d(conv_out(w, 2, 2, 0), num_levels - 1)

avg_pool2d(hw) == <<conv_out(hw[1], 3, 2, 1), conv_out(hw[2], 3, 2, 1)>>

\* the GRU of level i: torch.cat of the features and then of [h, x] need equal
\* spatial sizes
gru_fits(hidden_states, i) ==
    LET n == Len(hidden_states)
        features == IF i = 1 THEN hidden_states[1] ELSE avg_pool2d(hidden_states[i - 1])
       \* F.interpolate(hidden_states[i + 1], size=(2 * h, 2 * w))
    IN /\ i < n => <<2 * hidden_states[i + 1][1], 2 * hidden_states[i + 1][2]>> = features
       /\ features = hidden_states[i]

\* MultiLevelUpdateBlock.forward; levels are numbered from 1 here
update_block(hidden_states, level_processed) ==
    IF \A i \in 1..Len(hidden_states) : level_processed[i] => gru_fits(hidden_states, i)
    THEN "ok" ELSE "RuntimeError"

\* the update_block calls of one refinement iteration; level_processed is
\* [False] * (num_level - i) + [True] * i under slow_fast
refine(m, hidden_states) ==
    IF /\ m.slow_fast => \A i \in 1..(m.num_level - 1) :
                             update_block(hidden_states, [l \in 1..m.num_level |-> l > m.num_level - i]) = "ok"
       /\ update_block(hidden_states, [l \in 1..m.num_level |-> TRUE]) = "ok"
    THEN "ok" ELSE "RuntimeError"

\* upsample_flow(flow, up_mask, factor)[:, :1] on a (B, 2, h, w) flow
upsampled_depth(batch_size, hw, factor) == <<batch_size, 1, hw[1] * factor, hw[2] * factor>>

\* raft: the model, the call's arguments and the locals of forward
InitRaft ==
    /\ \E m \in Builders, batch_size \in 1..MaxBatch, h \in {4 * k : k \in 1..MaxCells}, w \in {4 * k : k \in 1..MaxCells}, num_iters \in 0..MaxIters :
           raft = [model |-> m, batch_size |-> batch_size, h |-> h, w |-> w, num_iters |-> num_iters,
                   pc |-> "call", raised |-> Idle, fmap |-> <<0, 0>>, hidden_states |-> << >>,
                   iter |-> 0, depth_predictions |-> << >>]
    /\ EarlyIdle /\ smp = 0 /\ reg = 0 /\ rel = 0 /\ san = 0 /\ cp = 0 /\ pd = 0

\* forward up to the refinement loop
RaftEncode ==
    /\ raft.pc = "call"
    /\ LET m == raft.model
           ratio == downsampling_ratio(m.strides)
           fmap == FeatureEncoder(<<raft.h, raft.w>>, m.strides)
       IN raft' =
              IF raft.h % ratio # 0 \/ raft.w % ratio # 0
              THEN [raft EXCEPT !.pc = "raised", !.raised = "AssertionError"]
              ELSE IF fmap # <<raft.h \div ratio, raft.w \div ratio>>
              THEN [raft EXCEPT !.pc = "raised", !.raised = "AssertionError"]
              ELSE IF CorrPyramid1d(fmap[2], m.corr_num_levels) # "ok"
              THEN [raft EXCEPT !.pc = "raised", !.raised = "RuntimeError", !.fmap = fmap]
              ELSE [raft EXCEPT !.pc = "loop", !.fmap = fmap,
                                !.hidden_states = context_levels(FeatureEncoder(<<raft.h, raft.w>>, m.strides), m.num_level)]
    /\ UNCHANGED <<early, smp, reg, rel, san, cp, pd>>

\* one pass of `for _ in range(num_iters)`
RaftIterate ==
    /\ raft.pc = "loop" /\ raft.iter < raft.num_iters
    /\ raft' =
           IF refine(raft.model, raft.hidden_states) # "ok"
           THEN [raft EXCEPT !.pc = "raised", !.raised = "RuntimeError"]
           ELSE [raft EXCEPT !.iter = @ + 1,
                             !.depth_predictions =
                                 Append(@, upsampled_depth(raft.batch_size, raft.fmap,
                                                           downsampling_ratio(raft.model.strides)))]
    /\ UNCHANGED <<early, smp, reg, rel, san, cp, pd>>

RaftReturn ==
    /\ raft.pc = "loop" /\ raft.iter >= raft.num_iters
    /\ raft' = [raft EXCEPT !.pc = "returned"]
    /\ UNCHANGED <<early, smp, reg, rel, san, cp, pd>>

NextRaft == RaftEncode \/ RaftIterate \/ RaftReturn

SpecRaft == InitRaft /\ [][NextRaft]_vars

\* C16: for images whose H and W are divisible by the base downsampling
\* ratio, forward returns exactly num_iters predictions, one per iteration,
\* each of shape (B, 1, H, W), with and without slow_fast.
C16_DepthPredictions ==
    (/\ raft.h % downsampling_ratio(raft.model.strides) = 0
     /\ raft.w % downsampling_ratio(raft.model.strides) = 0)
        => /\ raft.pc # "raised"
           /\ Len(raft.depth_predictions) = raft.iter
           /\ raft.pc = "returned" => Len(raft.depth_predictions) = raft.num_iters
           /\ \A i \in 1..Len(raft.depth_predictions) :
                  raft.depth_predictions[i] = <<raft.batch_size, 1, raft.h, raft.w>>
\* ------------------------------------------------ SanitizeBoundingBoxes: labels heuristic
\* keys are strings, written as tuples of characters
Key_label == <<"l", "a", "b", "e", "l">>

Key_labels == <<"l", "a", "b", "e", "l", "s">>

SampleKeys ==
    {Key_label, Key_labels,
     <<"L", "a", "b", "e", "l", "s">>,
     <<"L", "A", "B", "E", "L">>,
     <<"y", "l", "a", "b", "e", "l">>,
     <<"i", "m", "a", "g", "e">>,
     <<"b", "o", "x", "e", "s">>}

\* str.lower
lower(key) ==
    [i \in 1..Len(key) |->
        CASE key[i] = "L" -> "l" [] key[i] = "A" -> "a" [] key[i] = "B" -> "b" [] key[i] = "E" -> "e"
          [] OTHER -> key[i]]

\* sub in key
contains(key, sub) ==
    \E o \in 0..(Len(key) - Len(sub)) : \A i \in 1..Len(sub) : key[o + i] = sub[i]

\* next(key for key in keys if test) under suppress(StopIteration), given the
\* outcome of the test for every key; 0 stands for "candidate_key stays None"
first_key(tests) ==
    IF \E i \in 1..Len(tests) : tests[i]
    THEN CHOOSE i \in 1..Len(tests) : tests[i] /\ \A j \in 1..(i - 1) : ~ tests[j]
    ELSE 0

\* SanitizeBoundingBoxes._find_labels_default_heuristic; the value returned is
\* named by the position of its key
find_labels_default_heuristic(keys) ==
    LET exact == first_key([i \in 1..Len(keys) |-> lower(keys[i]) = Key_labels])
        candidate_key == IF exact # 0 THEN exact
                         ELSE first_key([i \in 1..Len(keys) |-> contains(lower(keys[i]), Key_label)])
    IN IF candidate_key = 0
       THEN [raised |-> "ValueError", returned |-> 0]
       ELSE [raised |-> Idle, returned |-> candidate_key]

\* san, for the heuristic alone: the keys of inputs and the result of the call
InitLabels ==
    /\ \E keys \in UNION {[1..n -> SampleKeys] : n \in 0..MaxKeys} :
           /\ \A i, j \in 1..Len(keys) : i # j => keys[i] # keys[j]
           /\ san = [keys |-> keys, op |-> "init", raised |-> Idle, returned |-> 0]
    /\ EarlyIdle /\ smp = 0 /\ reg = 0 /\ rel = 0 /\ raft = 0 /\ cp = 0 /\ pd = 0

FindLabelsDefaultHeuristic ==
    /\ san.op = "init"
    /\ LET f == find_labels_default_heuristic(san.keys)
       IN san' = [san EXCEPT !.op = "_find_labels_default_heuristic",
                             !.raised = f.raised, !.returned = f.returned]
    /\ UNCHANGED <<early, smp, reg, rel, raft, cp, pd>>

NextLabels == FindLabelsDefaultHeuristic

SpecLabels == InitLabels /\ [][NextLabels]_vars

\* C18: the heuristic returns the entry under the key "label" if there is
\* one, otherwise the entry under the first key that contains "label" in any
\* case, and returns None without raising when no key does.
C18_LabelsHeuristic ==
    san.op = "_find_labels_default_heuristic" =>
        LET keys == san.keys
            with_label == {i \in 1..Len(keys) : contains(lower(keys[i]), Key_label)}
        IN /\ san.raised = Idle
           /\ IF \E i \in 1..Len(keys) : keys[i] = Key_label
              THEN san.returned # 0 /\ keys[san.returned] = Key_label
              ELSE IF with_label # {}
              THEN san.returned \in with_label /\ \A j \in with_label : san.returned <= j
              ELSE san.returned = 0
\* ------------------------------------------------ SanitizeBoundingBoxes.forward
\* (height, width) of the image the boxes live in
SpatialSize == <<2, 3>>

\* the sample: an image, the boxes, a tensor of scores and, if has_labels,
\* a tensor of labels with `extra` rows more than there are boxes
sample_of(rows, format, has_labels, extra) ==
    <<[key |-> <<"i", "m", "a", "g", "e">>, type |-> "Image", data |-> << >>],
      [key |-> <<"b", "o", "x", "e", "s">>, type |-> "BoundingBox", data |-> [i \in 1..Len(rows) |-> from_xyxy(rows[i], format)]],
      [key |-> <<"s", "c", "o", "r", "e", "s">>, type |-> TensorCls, data |-> [i \in 1..Len(rows) |-> 50 + i]]>>
    \o (IF has_labels
        THEN <<[key |-> Key_labels, type |-> TensorCls, data |-> [i \in 1..(Len(rows) + extra) |-> 10 + i]]>>
        ELSE << >>)

key_index(inputs, key) ==
    IF \E i \in 1..Len(inputs) : inputs[i].key = key
    THEN CHOOSE i \in 1..Len(inputs) : inputs[i].key = key
    ELSE 0

\* self._labels_getter(inputs): the position of the entry it returns
labels_getter_call(labels_getter, inputs) ==
    IF labels_getter = None THEN [raised |-> Idle, returned |-> 0]
    ELSE IF labels_getter = "default"
    THEN find_labels_default_heuristic([i \in 1..Len(inputs) |-> inputs[i].key])
    ELSE IF key_index(inputs, Key_labels) = 0 THEN [raised |-> "KeyError", returned |-> 0]
    ELSE [raised |-> Idle, returned |-> key_index(inputs, Key_labels)]

\* query_bounding_box(flat_inputs): the one BoundingBox of the sample
query_bounding_box(flat_inputs) == CHOOSE i \in 1..Len(flat_inputs) : flat_inputs[i].type = "BoundingBox"

sanitize_mask_size_swapped(boxes, format, spatial_size, min_size) ==
    [i \in 1..Len(boxes) |->
        LET b == xyxy_of(boxes[i], format)
        IN /\ b[3] - b[1] >= min_size /\ b[4] - b[2] >= min_size
           /\ \A c \in 1..4 : b[c] >= 0
           /\ b[1] <= spatial_size[1] /\ b[3] <= spatial_size[1]
           /\ b[2] <= spatial_size[2] /\ b[4] <= spatial_size[2]]

\* the mask computed by forward
sanitize_mask(boxes, format, spatial_size, min_size) ==
    [i \in 1..Len(boxes) |->
        LET b == xyxy_of(boxes[i], format)
            image_h == spatial_size[1]
            image_w == spatial_size[2]
        IN /\ b[3] - b[1] >= min_size /\ b[4] - b[2] >= min_size
           /\ \A c \in 1..4 : b[c] >= 0
           /\ b[1] <= image_w /\ b[3] <= image_w
           /\ b[2] <= image_h /\ b[4] <= image_h]

\* inpt[mask], from row i on
RECURSIVE masked_from(_, _, _)
masked_from(data, mask, i) ==
    IF i > Len(data) THEN << >>
    ELSE (IF mask[i] THEN <<data[i]>> ELSE << >>) \o masked_from(data, mask, i + 1)

\* SanitizeBoundingBoxes._transform; labels is the position of the labels
\* entry (0 for None) and i the position of inpt
sanitize_transform(inpt, i, labels, mask) ==
    IF (labels # 0 /\ i = labels) \/ inpt.type = "BoundingBox"
    THEN [inpt EXCEPT !.data = masked_from(inpt.data, mask, 1)]
    ELSE inpt

sanitize_forward(self, inputs) ==
    LET got == labels_getter_call(self.labels_getter, inputs)
        labels == got.returned
        boxes == inputs[query_bounding_box(inputs)].data
        mask == sanitize_mask(boxes, self.format, self.spatial_size, self.min_size)
    IN IF got.raised # Idle THEN [raised |-> got.raised, labels |-> 0, outputs |-> << >>]
       ELSE IF labels # 0 /\ inputs[labels].type # TensorCls
       THEN [raised |-> "ValueError", labels |-> labels, outputs |-> << >>]
       ELSE IF labels # 0 /\ Len(boxes) # Len(inputs[labels].data)
       THEN [raised |-> "ValueError", labels |-> labels, outputs |-> << >>]
       ELSE [raised |-> Idle, labels |-> labels,
             outputs |-> [i \in 1..Len(inputs) |-> sanitize_transform(inputs[i], i, labels, mask)]]

\* san, for forward: the transform, the sample and the result of the call;
\* the boxes are drawn in XYXY, inside and outside the image, wide, narrow
\* and degenerate
InitSanitize ==
    /\ \E rows \in UNION {[1..n -> {-1, 0, 2} \X {0} \X {1, 2, 3, 4} \X {1, 2, 3}] : n \in 0..MaxBoxes}, format \in Formats, min_size \in 1..2,
          labels_getter \in {"default", None, "labels"}, has_labels \in BOOLEAN, extra \in 0..1 :
           /\ ~ has_labels => extra = 0
           /\ san = [self |-> [min_size |-> min_size, labels_getter |-> labels_getter,
                               format |-> format, spatial_size |-> SpatialSize],
                     inputs |-> sample_of(rows, format, has_labels, extra),
                     op |-> "init", raised |-> Idle, labels |-> 0, outputs |-> << >>]
    /\ EarlyIdle /\ smp = 0 /\ reg = 0 /\ rel = 0 /\ raft = 0 /\ cp = 0 /\ pd = 0

SanitizeForward ==
    /\ san.op = "init"
    /\ LET f == sanitize_forward(san.self, san.inputs)
       IN san' = [san EXCEPT !.op = "forward", !.raised = f.raised, !.labels = f.labels,
                             !.outputs = f.outputs]
    /\ UNCHANGED <<early, smp, reg, rel, raft, cp, pd>>

NextSanitize == SanitizeForward

SpecSanitize == InitSanitize /\ [][NextSanitize]_vars

\* a box the transform has to keep: wide and high enough, no coordinate
\* negative or beyond the image
ValidBox(box, format, min_size) ==
    LET b == xyxy_of(box, format)
    IN /\ ~ (b[3] - b[1] < min_size \/ b[4] - b[2] < min_size)
       /\ ~ (\E c \in 1..4 : b[c] < 0)
       /\ ~ (b[1] > SpatialSize[2] \/ b[3] > SpatialSize[2] \/ b[2] > SpatialSize[1] \/ b[4] > SpatialSize[1])

\* positions of the valid boxes, in order
RECURSIVE KeptFrom(_, _, _, _)
KeptFrom(boxes, format, min_size, i) ==
    IF i > Len(boxes) THEN << >>
    ELSE (IF ValidBox(boxes[i], format, min_size) THEN <<i>> ELSE << >>)
             \o KeptFrom(boxes, format, min_size, i + 1)

rolled(lst) ==
    IF lst = << >> THEN << >> ELSE <<lst[Len(lst)]>> \o SubSeq(lst, 1, Len(lst) - 1)

\* the body of the loop over zip(images, targets, images_rolled, targets_rolled);
\* the output of _copy_paste is made of the image and target and of the
\* selected masks, boxes and labels of the paste image and paste target
copy_paste_sample(image, target, paste_image, paste_target, random_selection) ==
    IF paste_target.masks < 1
    THEN [image |-> <<image>>, target |-> <<target.id>>, pasted |-> {}]
    ELSE [image |-> <<image, paste_image>>, target |-> <<target.id, paste_target.id>>,
          pasted |-> random_selection]

\* cp: the batch (image i comes with target i, which has some number of
\* masks), the pairs the loop went through and the outputs
InitCopyPaste ==
    /\ \E n \in 1..MaxCopyBatch : \E m \in [1..n -> 0..MaxMasks] :
           cp = [images |-> [i \in 1..n |-> i], targets |-> [i \in 1..n |-> [id |-> i, masks |-> m[i]]],
                 op |-> "init", paste_images |-> << >>, paste_targets |-> << >>, outputs |-> << >>]
    /\ EarlyIdle /\ smp = 0 /\ reg = 0 /\ rel = 0 /\ raft = 0 /\ san = 0 /\ pd = 0

CopyPasteForward ==
    /\ cp.op = "init"
    /\ LET images_rolled == rolled(cp.images)
           targets_rolled == rolled(cp.targets)
           n == Len(cp.images)
       \* torch.unique(torch.randint(0, num_masks, (num_masks,))): any non-empty
       \* set of mask indices
       IN \E random_selection \in [1..n -> SUBSET (0..(MaxMasks - 1))] :
              /\ \A i \in 1..n :
                     random_selection[i] \in
                         IF targets_rolled[i].masks < 1 THEN {{}}
                         ELSE (SUBSET (0..(targets_rolled[i].masks - 1))) \ {{}}
              /\ cp' = [cp EXCEPT !.op = "forward",
                                  !.paste_images = images_rolled,
                                  !.paste_targets = [i \in 1..n |-> targets_rolled[i].id],
                                  !.outputs = [i \in 1..n |->
                                      copy_paste_sample(cp.images[i], cp.targets[i], images_rolled[i],
                                                        targets_rolled[i], random_selection[i])]]
    /\ UNCHANGED <<early, smp, reg, rel, raft, san, pd>>

NextCopyPaste == CopyPasteForward

SpecCopyPaste == InitCopyPaste /\ [][NextCopyPaste]_vars

\* C19: the paste source of every sample is the next sample of the batch,
\* cyclically (paste_images = [t2, ..., tN, t1]), and the paste target of a
\* sample is the target of its paste image.
C19_PasteFromNext ==
    cp.op = "forward" =>
        LET n == Len(cp.images)
        IN \A i \in 1..n :
               /\ cp.paste_images[i] = cp.images[(i % n) + 1]
               /\ cp.paste_targets[i] = cp.targets[(i % n) + 1].id
               /\ cp.targets[(i % n) + 1].masks >= 1 =>
                      cp.outputs[i].image = <<cp.images[i], cp.images[(i % n) + 1]>>
\* ------------------------------------------------ BoundingBox.pad
\* F.pad_bounding_box: the box moves right by left and down by top, read out
\* of an int or a sequence of one, two or four ints
pad_bounding_box(data, format, padding) ==
    LET b == xyxy_of(data, format)
        v == padding.values
        sides == IF Len(v) = 1 THEN <<v[1], v[1], v[1], v[1]>>
                 ELSE IF Len(v) = 2 THEN <<v[1], v[2], v[1], v[2]>>
                 ELSE v
    IN from_xyxy(<<b[1] + sides[1], b[2] + sides[2], b[3] + sides[1], b[4] + sides[2]>>, format)

\* left, top, right, bottom = padding
unpack4(padding) ==
    IF padding.form = "int" THEN "TypeError"
    ELSE IF Len(padding.values) # 4 THEN "ValueError"
    ELSE Idle

BoundingBox_pad(self, padding, padding_mode) ==
    IF padding_mode # "constant" THEN [raised |-> "ValueError", out |-> NoBox]
    ELSE LET output == pad_bounding_box(self.data, self.format, padding)
         IN IF unpack4(padding) # Idle THEN [raised |-> unpack4(padding), out |-> NoBox]
            ELSE LET left == padding.values[1]
                     top == padding.values[2]
                     right == padding.values[3]
                     bottom == padding.values[4]
                     height == self.image_size[1] + top + bottom
                     width == self.image_size[2] + left + right
                 IN [raised |-> Idle,
                     out |-> BoundingBox_new_like_value(self, output, None, <<height, width>>)]

\* pd: a box, the arguments of pad (padding is an int or a sequence of one,
\* two or four ints) and what the call did
InitPad ==
    /\ pd \in [op : {"init"}, inpt : UNION {BoxesOf(2, 3, f) : f \in Formats},
               padding : {[form |-> "int", values |-> <<p>>] : p \in 0..MaxPad}
                             \cup {[form |-> "sequence", values |-> v] :
                                       v \in UNION {[1..n -> 0..MaxPad] : n \in {1, 2, 4}}},
               padding_mode : {"constant", "edge", "reflect", "symmetric"},
               raised : {Idle}, out : {NoBox}]
    /\ EarlyIdle /\ smp = 0 /\ reg = 0 /\ rel = 0 /\ raft = 0 /\ san = 0 /\ cp = 0

BoundingBoxPad ==
    /\ pd.op = "init"
    /\ LET r == BoundingBox_pad(pd.inpt, pd.padding, pd.padding_mode)
       IN pd' = [pd EXCEPT !.op = "pad", !.raised = r.raised, !.out = r.out]
    /\ UNCHANGED <<early, smp, reg, rel, raft, san, cp>>

NextPad == BoundingBoxPad

SpecPad == InitPad /\ [][NextPad]_vars

\* C20: pad raises ValueError for a padding_mode other than "constant";
\* otherwise, for an int, a 2-element and a 4-element padding alike, it
\* returns a box of the same format whose image_size is the input's enlarged
\* by the padding of each side.
C20_PadBoundingBox ==
    (pd.op = "pad" /\ (pd.padding.form = "int" \/ Len(pd.padding.values) \in {2, 4})) =>
        IF pd.padding_mode # "constant"
        THEN pd.raised = "ValueError"
        ELSE LET v == pd.padding.values
                 horizontal == IF Len(v) = 4 THEN v[1] + v[3] ELSE 2 * v[1]
                 vertical == IF Len(v) = 4 THEN v[2] + v[4] ELSE IF Len(v) = 2 THEN 2 * v[2] ELSE 2 * v[1]
             IN /\ pd.raised = Idle
                /\ pd.out.format = pd.inpt.format
                /\ pd.out.image_size = <<pd.inpt.image_size[1] + vertical, pd.inpt.image_size[2] + horizontal>>
====
